---- MODULE Spec2Model ----
(***************************************************************************)
(* A model of AlphaTeeko (src/alphateeko.py): the TeekoPlayer agent (board, *)
(* terminal detector, heuristic, depth-limited minimax, successor          *)
(* generator, opponent-move validator, move applicator) and the game loop  *)
(* of main().                                                              *)
(*                                                                         *)
(* A board is state[r][c] with r, c in 0..4, as in the source.  A move is  *)
(* a sequence of <<row, col>> pairs: <<dest>> or <<dest, src>>.  Python's  *)
(* None (no best move) and the empty list [] (no move available) are both  *)
(* written <<>>: make_move never returns None, and a real move is never    *)
(* empty.  Evaluations are kept as 4 * value (heuristic values are         *)
(* multiples of 1/4, game values are +1/-1), so every comparison of the    *)
(* source is an integer comparison here.                                   *)
(***************************************************************************)
EXTENDS Integers, Sequences, FiniteSets, TLC

\* ------------------------------------------------------------------ data

BoardSize == 5

Rows == 0 .. (BoardSize - 1)

Empty == " "

pieces == <<"X", "O">>

Cell == {Empty, pieces[1], pieces[2]}

\* TeekoPlayer.board as first built: every cell ' '.
EmptyBoard == [r \in Rows |-> [c \in Rows |-> Empty]]

\* self.opp as __init__ derives it from self.my_piece.
OppOf(my_piece) == IF my_piece = pieces[2] THEN pieces[1] ELSE pieces[2]

\* state[r][c] = v, on a copy.
SetCell(state, r, c, v) == [state EXCEPT ![r][c] = v]

\* row-major order of "for r in range(5): for c in range(5)".
AllCells == [k \in 1 .. (BoardSize * BoardSize) |->
               <<(k - 1) \div BoardSize, (k - 1) % BoardSize>>]

\* sum(row.count(a) + row.count(b) for row in state)
CountPiece(state, p) == Cardinality({k \in DOMAIN AllCells :
                                       state[AllCells[k][1]][AllCells[k][2]] = p})

NumPieces(state, self) == CountPiece(state, self.my_piece) + CountPiece(state, self.opp)

InBounds(r, c) == 0 <= r /\ r < BoardSize /\ 0 <= c /\ c < BoardSize

Abs(x) == IF x < 0 THEN -x ELSE x

\* ------------------------------------------------------------ game_value

\* A window is the 4 cells one comparison of game_value reads, in the order
\* the scan visits them.
HorizontalWindows == [k \in 1 .. 10 |->
    LET row == (k - 1) \div 2
        i == (k - 1) % 2
    IN <<<<row, i>>, <<row, i + 1>>, <<row, i + 2>>, <<row, i + 3>>>>]

VerticalWindows == [k \in 1 .. 10 |->
    LET col == (k - 1) \div 2
        i == (k - 1) % 2
    IN <<<<i, col>>, <<i + 1, col>>, <<i + 2, col>>, <<i + 3, col>>>>]

DiagonalWindows == [k \in 1 .. 4 |->
    LET i == (k - 1) \div 2
        j == (k - 1) % 2
    IN <<<<i, j>>, <<i + 1, j + 1>>, <<i + 2, j + 2>>, <<i + 3, j + 3>>>>]

AntiDiagonalWindows == [k \in 1 .. 4 |->
    LET i == (k - 1) \div 2
        j == 3 + ((k - 1) % 2)
    IN <<<<i, j>>, <<i + 1, j - 1>>, <<i + 2, j - 2>>, <<i + 3, j - 3>>>>]

BoxWindows == [k \in 1 .. 16 |->
    LET i == (k - 1) \div 4
        j == (k - 1) % 4
    IN <<<<i, j>>, <<i + 1, j>>, <<i, j + 1>>, <<i + 1, j + 1>>>>]

WinWindows == HorizontalWindows \o VerticalWindows \o DiagonalWindows
              \o AntiDiagonalWindows \o BoxWindows

At(state, rc) == state[rc[1]][rc[2]]

\* Filled without the comparison with the window's last cell.
FilledThree(state, w) ==
    /\ At(state, w[1]) # Empty
    /\ At(state, w[1]) = At(state, w[2])
    /\ At(state, w[1]) = At(state, w[3])

\* the test of each "if" of game_value: first cell not ' ' and all four equal.
Filled(state, w) ==
    /\ At(state, w[1]) # Empty
    /\ At(state, w[1]) = At(state, w[2])
    /\ At(state, w[1]) = At(state, w[3])
    /\ At(state, w[1]) = At(state, w[4])

\* index of the first window, in scan order from k, that is filled; 0 if none.
RECURSIVE FirstFilled(_, _)
FirstFilled(state, k) ==
    IF k > Len(WinWindows) THEN 0
    ELSE IF Filled(state, WinWindows[k]) THEN k
    ELSE FirstFilled(state, k + 1)

\* game_value with the two signs exchanged.
game_value_signs_exchanged(self, state) ==
    LET k == FirstFilled(state, 1)
    IN IF k = 0 THEN 0
       ELSE IF At(state, WinWindows[k][1]) = self.my_piece THEN -1 ELSE 1

game_value(self, state) ==
    LET k == FirstFilled(state, 1)
    IN IF k = 0 THEN 0
       ELSE IF At(state, WinWindows[k][1]) = self.my_piece THEN 1 ELSE -1

\* ------------------------------------------------- heuristic_game_value

\* _count_line / _count_box over the cells of one window: the number of
\* cells holding piece, or 0 as soon as a cell holds anything else but ' '.
RECURSIVE CountWindow(_, _, _, _, _)
CountWindow(state, w, i, count, piece) ==
    IF i > Len(w) THEN count
    ELSE IF At(state, w[i]) = piece THEN CountWindow(state, w, i + 1, count + 1, piece)
    ELSE IF At(state, w[i]) # Empty THEN 0
    ELSE CountWindow(state, w, i + 1, count, piece)

\* the cells _count_line(state, r, c, dr, dc, piece) reads, in loop order.
LineCells(r, c, dr, dc) == [i \in 1 .. 4 |-> <<r + (i - 1) * dr, c + (i - 1) * dc>>]

\* the cells _count_box(state, r, c, piece) reads, in loop order.
BoxCells(r, c) == <<<<r, c>>, <<r, c + 1>>, <<r + 1, c>>, <<r + 1, c + 1>>>>

_count_line(state, r, c, dr, dc, piece) ==
    CountWindow(state, LineCells(r, c, dr, dc), 1, 0, piece)

_count_box(state, r, c, piece) ==
    CountWindow(state, BoxCells(r, c), 1, 0, piece)

\* every window the double loop of heuristic_game_value counts, by the guard
\* of each of its five "if" blocks.
HeuristicWindows ==
    {LineCells(i, j, 0, 1) : i \in Rows, j \in {x \in Rows : x <= 1}}
    \cup {LineCells(i, j, 1, 0) : i \in {x \in Rows : x <= 1}, j \in Rows}
    \cup {LineCells(i, j, 1, 1) : i \in {x \in Rows : x <= 1}, j \in {x \in Rows : x <= 1}}
    \cup {LineCells(i, j, 1, -1) : i \in {x \in Rows : x <= 1}, j \in {x \in Rows : x >= 3}}
    \cup {BoxCells(i, j) : i \in {x \in Rows : x < 4}, j \in {x \in Rows : x < 4}}

SetMax(S) == CHOOSE x \in S : \A y \in S : y <= x

\* my_val (or opp_val) when the loop ends: the running max, started at 0,
\* of the counts of all windows.
BestCount(state, piece) ==
    SetMax({0} \cup {CountWindow(state, w, 1, 0, piece) : w \in HeuristicWindows})

\* heuristic_game_value scoring for the piece argument instead of my_piece.
heuristic_game_value_of_argument(self, state, piece) ==
    BestCount(state, piece) - BestCount(state, OppOf(piece))

\* heuristic_game_value adding opp_val instead of subtracting it.
heuristic_game_value_added(self, state, piece) ==
    BestCount(state, self.my_piece) + BestCount(state, self.opp)

\* 4 * heuristic_game_value: my_val - opp_val.  The piece argument is not read.
heuristic_game_value(self, state, piece) ==
    BestCount(state, self.my_piece) - BestCount(state, self.opp)

\* -------------------------------------------------- _generate_successors

\* "for dr in [-1, 0, 1]: for dc in [-1, 0, 1]: if dr == 0 and dc == 0: continue"
Offsets == <<<<-1, -1>>, <<-1, 0>>, <<-1, 1>>, <<0, -1>>,
             <<0, 1>>, <<1, -1>>, <<1, 0>>, <<1, 1>>>>

\* every (source cell, offset) in the order the move-phase loops visit them.
Steps == [k \in 1 .. (Len(AllCells) * Len(Offsets)) |->
            [src |-> AllCells[((k - 1) \div Len(Offsets)) + 1],
             off |-> Offsets[((k - 1) % Len(Offsets)) + 1]]]

StepDest(s) == <<s.src[1] + s.off[1], s.src[2] + s.off[2]>>

DropSuccessor(state, rc, piece) ==
    [state |-> SetCell(state, rc[1], rc[2], piece), move |-> <<rc>>]

\* MoveSuccessor naming the source first and the destination second.
MoveSuccessorSourceFirst(state, s, piece) ==
    [state |-> SetCell(SetCell(state, s.src[1], s.src[2], Empty),
                       StepDest(s)[1], StepDest(s)[2], piece),
     move |-> <<s.src, StepDest(s)>>]

\* MoveSuccessor leaving the piece on its source cell.
MoveSuccessorSourceKept(state, s, piece) ==
    [state |-> SetCell(state, StepDest(s)[1], StepDest(s)[2], piece),
     move |-> <<StepDest(s), s.src>>]

MoveSuccessor(state, s, piece) ==
    [state |-> SetCell(SetCell(state, s.src[1], s.src[2], Empty),
                       StepDest(s)[1], StepDest(s)[2], piece),
     move |-> <<StepDest(s), s.src>>]

_generate_successors(self, state, piece) ==
    LET num_pieces == NumPieces(state, self)
        drop_phase == num_pieces < 8
    IN IF drop_phase
       THEN LET free == SelectSeq(AllCells, LAMBDA rc : At(state, rc) = Empty)
            IN [k \in DOMAIN free |-> DropSuccessor(state, free[k], piece)]
       ELSE LET ok == SelectSeq(Steps, LAMBDA s :
                        /\ At(state, s.src) = piece
                        /\ InBounds(StepDest(s)[1], StepDest(s)[2])
                        /\ At(state, StepDest(s)) = Empty)
            IN [k \in DOMAIN ok |-> MoveSuccessor(state, ok[k], piece)]

\* --------------------------------------------------------------- _minimax

NegInf == -5

PosInf == 5

None == <<>>

\* _minimax testing the depth before the winner: the heuristic on a board
\* reached at the depth limit, whoever has won on it.
RECURSIVE _minimax_cutoff_first(_, _, _, _)
_minimax_cutoff_first(self, state, depth, is_maximizing_player) ==
    LET game_val == game_value(self, state)
    IN IF depth = self.AI_SEARCH_DEPTH
       THEN [eval |-> heuristic_game_value(self, state, self.my_piece), move |-> None]
       ELSE IF game_val # 0 THEN [eval |-> 4 * game_val, move |-> None]
       ELSE
         LET successors == _generate_successors(self, state,
                              IF is_maximizing_player THEN self.my_piece ELSE self.opp)
             n == Len(successors)
             evals == [k \in 1 .. n |->
                         _minimax_cutoff_first(self, successors[k].state, depth + 1,
                                               ~is_maximizing_player).eval] \o <<>>
             RECURSIVE Loop(_, _, _)
             Loop(k, best_eval, best_move) ==
                 IF k > n THEN [eval |-> best_eval, move |-> best_move]
                 ELSE LET evaluation == evals[k]
                          better == IF is_maximizing_player
                                    THEN evaluation > best_eval
                                    ELSE evaluation < best_eval
                      IN IF better THEN Loop(k + 1, evaluation, successors[k].move)
                         ELSE Loop(k + 1, best_eval, best_move)
         IN Loop(1, IF is_maximizing_player THEN NegInf ELSE PosInf, None)

\* The children are evaluated once each, in generator order (evals); Loop is
\* the "for succ_state, move in successors" loop with its strict comparison.
RECURSIVE _minimax(_, _, _, _)
_minimax(self, state, depth, is_maximizing_player) ==
    LET game_val == game_value(self, state)
    IN IF game_val # 0 THEN [eval |-> 4 * game_val, move |-> None]
       ELSE IF depth = self.AI_SEARCH_DEPTH
       THEN [eval |-> heuristic_game_value(self, state, self.my_piece), move |-> None]
       ELSE
         LET successors == _generate_successors(self, state,
                              IF is_maximizing_player THEN self.my_piece ELSE self.opp)
             n == Len(successors)
             evals == [k \in 1 .. n |->
                         _minimax(self, successors[k].state, depth + 1,
                                  ~is_maximizing_player).eval] \o <<>>
             RECURSIVE Loop(_, _, _)
             Loop(k, best_eval, best_move) ==
                 IF k > n THEN [eval |-> best_eval, move |-> best_move]
                 ELSE LET evaluation == evals[k]
                          better == IF is_maximizing_player
                                    THEN evaluation > best_eval
                                    ELSE evaluation < best_eval
                      IN IF better THEN Loop(k + 1, evaluation, successors[k].move)
                         ELSE Loop(k + 1, best_eval, best_move)
         IN Loop(1, IF is_maximizing_player THEN NegInf ELSE PosInf, None)

\* The greatest depth argument among the calls _minimax(state, depth, ..)
\* makes, itself included: it returns at once on a winner or at the depth
\* limit, and calls itself with depth + 1 on each successor otherwise.
RECURSIVE _minimax_deepest(_, _, _, _)
_minimax_deepest(self, state, depth, is_maximizing_player) ==
    IF game_value(self, state) # 0 \/ depth = self.AI_SEARCH_DEPTH THEN depth
    ELSE LET successors == _generate_successors(self, state,
                              IF is_maximizing_player THEN self.my_piece ELSE self.opp)
         IN SetMax({depth} \cup
                   {_minimax_deepest(self, successors[k].state, depth + 1,
                                     ~is_maximizing_player) : k \in DOMAIN successors})

\* -------------------------------------------------------------- make_move

\* make_move taking the random successor whatever minimax returns.
make_move_always_random(self, state) ==
    LET successors == _generate_successors(self, state, self.my_piece)
    IN IF Len(successors) > 0
       THEN {successors[k].move : k \in DOMAIN successors}
       ELSE {<<>>}

\* make_move returning the empty move whenever minimax returns no move.
make_move_no_fallback(self, state) ==
    LET best_move == _minimax(self, state, 0, TRUE).move
    IN IF best_move = None THEN {<<>>} ELSE {best_move}

\* The set of moves one call of make_move may return: the minimax move, or,
\* when minimax returns no move, any successor's move (random.choice), or
\* the empty move when there is no successor.
make_move(self, state) ==
    LET best_move == _minimax(self, state, 0, TRUE).move
    IN IF best_move = None
       THEN LET successors == _generate_successors(self, state, self.my_piece)
            IN IF Len(successors) > 0
               THEN {successors[k].move : k \in DOMAIN successors}
               ELSE {<<>>}
       ELSE {best_move}

\* ------------------------------------------- place_piece, opponent_move

\* place_piece without the write that empties the source.
place_piece_source_kept(b, move, piece) ==
    SetCell(b, move[1][1], move[1][2], piece)

place_piece(b, move, piece) ==
    LET cleared == IF Len(move) > 1
                   THEN SetCell(b, move[2][1], move[2][2], Empty)
                   ELSE b
    IN SetCell(cleared, move[1][1], move[1][2], piece)

\* ------------------------------------------------ the lists written to

\* A list object is named by how it was made: "state" is the list passed to
\* make_move, <<"copy", obj>> the new list copy.deepcopy(obj) returns.

\* copy.deepcopy handing back the list it was given.
deepcopy_same_list(obj) == obj

deepcopy(obj) == <<"copy", obj>>

\* The lists _generate_successors(obj, piece) assigns cells of: state_new.
_generate_successors_writes(obj) == {deepcopy(obj)}

\* The lists a call make_move(obj) can assign cells of: those the generator
\* writes under _minimax(state_copy, 0, True) and under the fallback
\* _generate_successors(state, self.my_piece).
make_move_writes(obj) ==
    _generate_successors_writes(deepcopy(obj)) \cup _generate_successors_writes(obj)

\* b after every assignment the generator makes for these successors.
RECURSIVE Assigned(_, _, _, _)
Assigned(b, successors, k, piece) ==
    IF k > Len(successors) THEN b
    ELSE Assigned(place_piece(b, successors[k].move, piece), successors, k + 1, piece)

\* The list passed to make_move, as it is when make_move returns.
state_after_make_move(self, state) ==
    IF "state" \in make_move_writes("state")
    THEN Assigned(state, _generate_successors(self, state, self.my_piece), 1, self.my_piece)
    ELSE state

ErrFormat == "Invalid move format. Move should have 1 or 2 tuples."

ErrOutside == "Move is outside the board."

ErrOccupied == "Illegal move: destination is already occupied."

ErrSourceOutside == "Source of move is outside the board."

ErrNoPiece == "You don't have a piece at the source location"

ErrNotAdjacent == "Illegal move: can only move to an adjacent space."

NoError == ""

\* SourceError with the adjacency check made before the ownership check.
SourceErrorAdjacencyFirst(self, b, move) ==
    LET dest_r == move[1][1]
        dest_c == move[1][2]
        src_r == move[2][1]
        src_c == move[2][2]
    IN IF ~(0 <= src_r /\ src_r < 5 /\ 0 <= src_c /\ src_c < 5) THEN ErrSourceOutside
       ELSE IF Abs(src_r - dest_r) > 1 \/ Abs(src_c - dest_c) > 1 THEN ErrNotAdjacent
       ELSE IF b[src_r][src_c] # self.opp THEN ErrNoPiece
       ELSE NoError

\* SourceError without the adjacency check.
SourceErrorNoAdjacency(self, b, move) ==
    LET src_r == move[2][1]
        src_c == move[2][2]
    IN IF ~(0 <= src_r /\ src_r < 5 /\ 0 <= src_c /\ src_c < 5) THEN ErrSourceOutside
       ELSE IF b[src_r][src_c] # self.opp THEN ErrNoPiece
       ELSE NoError

\* The ValueError the source-part checks of opponent_move raise, or NoError.
SourceError(self, b, move) ==
    LET dest_r == move[1][1]
        dest_c == move[1][2]
        src_r == move[2][1]
        src_c == move[2][2]
    IN IF ~(0 <= src_r /\ src_r < 5 /\ 0 <= src_c /\ src_c < 5) THEN ErrSourceOutside
       ELSE IF b[src_r][src_c] # self.opp THEN ErrNoPiece
       ELSE IF Abs(src_r - dest_r) > 1 \/ Abs(src_c - dest_c) > 1 THEN ErrNotAdjacent
       ELSE NoError

\* The ValueError opponent_move raises on board b, or NoError when it gets
\* as far as "Apply the move".
ValidationError(self, b, move) ==
    IF ~(1 <= Len(move) /\ Len(move) <= 2) THEN ErrFormat
    ELSE LET dest_r == move[1][1]
             dest_c == move[1][2]
         IN IF ~(0 <= dest_r /\ dest_r < 5 /\ 0 <= dest_c /\ dest_c < 5) THEN ErrOutside
            ELSE IF b[dest_r][dest_c] # Empty THEN ErrOccupied
            ELSE IF Len(move) > 1 THEN SourceError(self, b, move)
            ELSE NoError

\* opponent_move applying the move before the source checks have passed.
opponent_move_apply_early(self, b, move) ==
    LET e == ValidationError(self, b, move)
    IN IF e \in {NoError, ErrNoPiece, ErrNotAdjacent}
       THEN [err |-> e, board |-> place_piece(b, move, self.opp)]
       ELSE [err |-> e, board |-> b]

\* opponent_move on the authoritative board b: the error raised (NoError if
\* none) and the board when the call ends.
opponent_move(self, b, move) ==
    LET e == ValidationError(self, b, move)
    IN IF e # NoError THEN [err |-> e, board |-> b]
       ELSE [err |-> NoError, board |-> place_piece(b, move, self.opp)]

\* ----------------------------------------------- get_human_move (input)

\* The cells the human types in this model (a subset of A0..E4).
HumanCells == {<<2, 3>>, <<2, 4>>, <<3, 3>>, <<3, 4>>, <<4, 4>>}

\* get_human_move offering drops and relocations in either phase.
get_human_move_any_phase(b, is_drop_phase) ==
    {<<rc>> : rc \in {x \in HumanCells : At(b, x) = Empty}}
    \cup {<<to, from>> : to \in HumanCells, from \in HumanCells}

\* The moves get_human_move can return on board b: in the drop phase a
\* single free cell (an occupied one is asked again), in the move phase any
\* to/from pair of cells.
get_human_move(b, is_drop_phase) ==
    IF is_drop_phase
    THEN {<<rc>> : rc \in {x \in HumanCells : At(b, x) = Empty}}
    ELSE {<<to, from>> : to \in HumanCells, from \in HumanCells}

\* ------------------------------------------------------------ the state

VARIABLES
    board,        \* TeekoPlayer.board, the authoritative board
    ai,           \* the TeekoPlayer: my_piece, opp, AI_SEARCH_DEPTH
    piece_count,  \* main: piece_count
    turn,         \* main: turn, an index into pieces
    pc,           \* "call", "again": direct calls of make_move; "loop";
                  \* "game_over": after the loop; "done"
    op,           \* the last operation: "init", "make_move", "ai_turn",
                  \* "opponent_move", "game_over", "report"
    move,         \* the move the last operation returned or was given
    err,          \* the message of the ValueError of the last opponent_move
    prev,         \* the board before the last operation
    first,        \* the move the first direct call of make_move returned
    value,        \* what game_value returned after the loop
    turns,        \* loop iterations completed
    score,        \* 4 * the evaluation the last direct call of
                  \* heuristic_game_value or _minimax returned
    arg,          \* the arguments of that call besides the board
    games         \* the TeekoPlayer objects constructed so far

vars == <<board, ai, piece_count, turn, pc, op, move, err, prev, first, value, turns,
          score, arg, games>>

AI_SEARCH_DEPTH == 3

MaxTurns == 11

\* The search depths the game loops are explored with.
LoopDepths == 1 .. (AI_SEARCH_DEPTH - 1)

\* TeekoPlayer(): my_piece is random.choice(pieces).
Players(depths) ==
    {[my_piece |-> p, opp |-> OppOf(p), AI_SEARCH_DEPTH |-> d] :
        p \in {pieces[k] : k \in DOMAIN pieces}, d \in depths}

\* main() up to "# Main game loop".
Init ==
    /\ board = EmptyBoard
    /\ ai \in Players(LoopDepths)
    /\ piece_count = 0
    /\ turn = 0
    /\ pc = "loop"
    /\ op = "init"
    /\ move = <<>>
    /\ err = NoError
    /\ prev = EmptyBoard
    /\ first = <<>>
    /\ value = 0
    /\ score = 0
    /\ arg = <<>>
    /\ games = 1
    /\ turns = 0

\* "if is_drop_phase: piece_count += 1" and "turn = 1 - turn".
EndOfTurn ==
    /\ piece_count' = IF piece_count < 8 THEN piece_count + 1 ELSE piece_count
    /\ turn' = 1 - turn
    /\ turns' = turns + 1

\* The loop going on whatever game_value says.
InLoopPastWin == pc = "loop" /\ turns < MaxTurns

InLoop == pc = "loop" /\ game_value(ai, board) = 0 /\ turns < MaxTurns

\* One iteration of the loop on the AI's turn: make_move, then "break" on
\* an empty move, else place_piece.
AiTurn ==
    /\ InLoop
    /\ ai.my_piece = pieces[turn + 1]
    /\ \E m \in make_move(ai, board) :
         /\ move' = m
         /\ IF m = <<>>
            THEN /\ pc' = "game_over"
                 /\ board' = state_after_make_move(ai, board)
                 /\ UNCHANGED <<piece_count, turn, turns>>
            ELSE /\ board' = place_piece(state_after_make_move(ai, board), m, ai.my_piece)
                 /\ EndOfTurn
                 /\ UNCHANGED pc
    /\ op' = "ai_turn"
    /\ err' = NoError
    /\ prev' = board
    /\ UNCHANGED <<ai, first, value, score, arg, games>>

\* Submit ending the turn whether or not the move was accepted.
SubmitEndsTurn(human_move) ==
    LET res == opponent_move(ai, board, human_move)
    IN /\ move' = human_move
       /\ err' = res.err
       /\ board' = res.board
       /\ EndOfTurn
       /\ op' = "opponent_move"
       /\ prev' = board
       /\ UNCHANGED <<ai, pc, first, value, score, arg, games>>

\* One call of opponent_move(human_move) by the loop: accepted, it ends the
\* turn; rejected, the human is asked again.
Submit(human_move) ==
    LET res == opponent_move(ai, board, human_move)
    IN /\ move' = human_move
       /\ err' = res.err
       /\ board' = res.board
       /\ IF res.err = NoError
          THEN EndOfTurn
          ELSE UNCHANGED <<piece_count, turn, turns>>
       /\ op' = "opponent_move"
       /\ prev' = board
       /\ UNCHANGED <<ai, pc, first, value, score, arg, games>>

\* One pass of "while not move_made" on the human's turn.
HumanTurn ==
    /\ InLoop
    /\ ai.my_piece # pieces[turn + 1]
    /\ \E human_move \in get_human_move(board, piece_count < 8) : Submit(human_move)

\* The loop condition fails: "# Game over".
GameOver ==
    /\ pc = "loop"
    /\ game_value(ai, board) # 0
    /\ pc' = "game_over"
    /\ op' = "game_over"
    /\ prev' = board
    /\ UNCHANGED <<board, ai, piece_count, turn, move, err, first, value, turns,
                   score, arg, games>>

\* "# Game over": game_value(ai.board) decides what main reports.
Report ==
    /\ pc = "game_over"
    /\ value' = game_value(ai, board)
    /\ pc' = "done"
    /\ op' = "report"
    /\ prev' = board
    /\ UNCHANGED <<board, ai, piece_count, turn, move, err, first, turns,
                   score, arg, games>>

\* ------------------------------------------------ the agent's API, driven

\* A caller that drives the agent as main does, but hands opponent_move any
\* move, not only those get_human_move lets through.
OutsideCells == {<<-1, 0>>, <<0, 5>>}

InsideCells == {<<0, 1>>, <<3, 1>>, <<3, 2>>, <<3, 3>>, <<3, 4>>}

InputCells == InsideCells \cup OutsideCells

InputMoves ==
    {<<>>, <<<<0, 1>>, <<3, 1>>, <<3, 2>>>>}
    \cup {<<d>> : d \in InputCells}
    \cup {<<d, s>> : d \in InputCells, s \in InputCells}

CallerTurn ==
    /\ InLoop
    /\ ai.my_piece # pieces[turn + 1]
    /\ \E m \in InputMoves : Submit(m)

ApiNext == AiTurn \/ CallerTurn \/ GameOver \/ Report

\* The caller's games are explored with a search depth of 1.
ApiInit == Init /\ ai.AI_SEARCH_DEPTH = 1

ApiSpec == ApiInit /\ [][ApiNext]_vars

\* -------------------------------------------- searches on given boards

AllCellSet == {AllCells[k] : k \in DOMAIN AllCells}

\* The board with the agent's piece on mine, the opponent's on theirs.
PlayerBoard(self, mine, theirs) ==
    [r \in Rows |-> [c \in Rows |->
        IF <<r, c>> \in mine THEN self.my_piece
        ELSE IF <<r, c>> \in theirs THEN self.opp
        ELSE Empty]]

Row0 == {<<0, 0>>, <<0, 1>>, <<0, 2>>, <<0, 3>>}

Row0Three == {<<0, 0>>, <<0, 1>>, <<0, 2>>}

Row1 == {<<1, 0>>, <<1, 1>>, <<1, 2>>, <<1, 3>>}

\* 8 pieces, no winner: the move phase.
MoveMine == {<<0, 0>>, <<0, 1>>, <<0, 2>>, <<1, 3>>}

MoveTheirs == {<<1, 0>>, <<1, 1>>, <<1, 2>>, <<0, 3>>, <<4, 4>>}

\* A full board without a winner:  X O X X X
\*                                 O O X O X
\*                                 X X O X O
\*                                 O O X O X
\*                                 X O X O X
DenseA == {<<0, 0>>, <<0, 2>>, <<0, 3>>, <<0, 4>>, <<1, 2>>, <<1, 4>>, <<2, 0>>,
           <<2, 1>>, <<2, 3>>, <<3, 2>>, <<3, 4>>, <<4, 0>>, <<4, 2>>, <<4, 4>>}

DenseB == AllCellSet \ DenseA

\* The cells taken off the full board, one set at a time.
DenseHoles == {{}, {<<0, 0>>}, {<<2, 2>>}, {<<0, 0>>, <<4, 0>>}}

Family(depths, who, mineSets, theirSets) ==
    {[d |-> d, my_piece |-> p, mine |-> m, theirs |-> t] :
        d \in depths, p \in who, m \in mineSets, t \in theirSets}

Both == {pieces[1], pieces[2]}

\* The (depth, agent's piece, board) triples searched: sparse drop-phase
\* boards, with and without a winner, at depth 1; some of them at depth 2
\* and, for one piece, at depth 3 (the empty board; three in row 0, alone
\* and in a board of 7); move-phase boards; nearly full boards.
SearchInputs ==
    Family({1}, Both, SUBSET Row0, SUBSET Row1)
    \cup Family({2}, Both, {{}, Row0Three, Row0}, {{}, {<<1, 3>>}, Row1})
    \cup Family({AI_SEARCH_DEPTH}, {pieces[1]}, {{}, Row0Three}, {{}, Row1})
    \cup Family({AI_SEARCH_DEPTH}, {pieces[2]}, {Row0Three}, {MoveTheirs \ {<<0, 3>>}})
    \cup Family({1, 2}, Both, {MoveMine}, {t \in SUBSET MoveTheirs : Cardinality(t) = 4})
    \cup Family(1 .. AI_SEARCH_DEPTH, Both, {DenseA \ h : h \in DenseHoles},
                {DenseB \ h : h \in DenseHoles})
    \cup Family(1 .. AI_SEARCH_DEPTH, Both, {DenseB \ h : h \in DenseHoles},
                {DenseA \ h : h \in DenseHoles})

\* TeekoPlayer() with the piece and the depth given.
Player(p, d) == [my_piece |-> p, opp |-> OppOf(p), AI_SEARCH_DEPTH |-> d]

\* An agent holding one of the boards above, with the turn its own.
SearchInit ==
    /\ \E in \in SearchInputs :
         /\ ai = Player(in.my_piece, in.d)
         /\ board = PlayerBoard(Player(in.my_piece, in.d), in.mine, in.theirs)
         /\ prev = PlayerBoard(Player(in.my_piece, in.d), in.mine, in.theirs)
         /\ turn = IF in.my_piece = pieces[1] THEN 0 ELSE 1
         /\ piece_count = IF Cardinality(in.mine \cup in.theirs) < 8
                          THEN Cardinality(in.mine \cup in.theirs) ELSE 8
    /\ pc = "call"
    /\ op = "init"
    /\ move = <<>>
    /\ err = NoError
    /\ first = <<>>
    /\ value = 0
    /\ score = 0
    /\ arg = <<>>
    /\ games = 1
    /\ turns = 0

\* A direct call of make_move(board): the first, then a second one.
CallMakeMove ==
    /\ pc \in {"call", "again"}
    /\ \E m \in make_move(ai, board) :
         /\ move' = m
         /\ first' = IF pc = "call" THEN m ELSE first
    /\ pc' = IF pc = "call" THEN "again" ELSE "loop"
    /\ op' = "make_move"
    /\ err' = NoError
    /\ prev' = board
    /\ board' = state_after_make_move(ai, board)
    /\ UNCHANGED <<ai, piece_count, turn, value, turns, score, arg, games>>

SearchNext == CallMakeMove \/ AiTurn \/ GameOver \/ Report

SearchSpec == SearchInit /\ [][SearchNext]_vars

\* ------------------------------------------- game_value on given boards

\* The 4 cells from (r, c) in direction (dr, dc).
Line(r, c, dr, dc) == {<<r + i * dr, c + i * dc>> : i \in 0 .. 3}

OnBoard(cells) == \A rc \in cells : InBounds(rc[1], rc[2])

\* Every line of 4 and every 2x2 box of the board, as sets of cells.
LinesOf(dr, dc) == {w \in {Line(r, c, dr, dc) : r \in Rows, c \in Rows} : OnBoard(w)}

Boxes == {w \in {{<<r, c>>, <<r + 1, c>>, <<r, c + 1>>, <<r + 1, c + 1>>} :
                    r \in Rows, c \in Rows} : OnBoard(w)}

Patterns == LinesOf(0, 1) \cup LinesOf(1, 0) \cup LinesOf(1, 1) \cup LinesOf(1, -1) \cup Boxes

\* A pattern, whole or without its least cell, or nothing.
Least(w) == CHOOSE rc \in w : \A x \in w : rc[1] < x[1] \/ (rc[1] = x[1] /\ rc[2] <= x[2])

Greatest(w) == CHOOSE rc \in w : \A x \in w : rc[1] > x[1] \/ (rc[1] = x[1] /\ rc[2] >= x[2])

\* No piece, a whole pattern, or a pattern short of its first or last cell.
Shapes == {{}} \cup Patterns \cup {w \ {Least(w)} : w \in Patterns}
          \cup {w \ {Greatest(w)} : w \in Patterns}

\* The agent, after a game, holding a board made of one shape per side.
BoardInit ==
    /\ \E self \in Players({1}) : \E mine \in Shapes : \E theirs \in Shapes :
         /\ mine \cap theirs = {}
         /\ ai = self
         /\ board = PlayerBoard(self, mine, theirs)
         /\ prev = PlayerBoard(self, mine, theirs)
    /\ piece_count = 0
    /\ turn = 0
    /\ pc = "game_over"
    /\ op = "init"
    /\ move = <<>>
    /\ err = NoError
    /\ first = <<>>
    /\ value = 0
    /\ score = 0
    /\ arg = <<>>
    /\ games = 1
    /\ turns = 0

BoardNext == Report

BoardSpec == BoardInit /\ [][BoardNext]_vars

\* ------------------------------- heuristic_game_value on given boards

\* No piece, a whole pattern, or a pattern short of any one of its cells.
EvalShapes == {{}} \cup Patterns
              \cup UNION {{w \ {rc} : rc \in w} : w \in Patterns}

\* No piece, a box short of its last cell, or a whole diagonal.
FewShapes == {{}} \cup {w \ {Greatest(w)} : w \in Boxes} \cup LinesOf(1, 1)

\* An agent holding a board made of one shape per piece, one of the two
\* shapes among the few.
EvalInit ==
    /\ \E self \in Players({1}), mine \in EvalShapes, theirs \in EvalShapes :
         /\ mine \cap theirs = {}
         /\ mine \in FewShapes \/ theirs \in FewShapes
         /\ ai = self
         /\ board = PlayerBoard(self, mine, theirs)
         /\ prev = PlayerBoard(self, mine, theirs)
    /\ piece_count = 0
    /\ turn = 0
    /\ pc = "call"
    /\ op = "init"
    /\ move = <<>>
    /\ err = NoError
    /\ first = <<>>
    /\ value = 0
    /\ turns = 0
    /\ score = 0
    /\ arg = <<>>
    /\ games = 1

\* A direct call of heuristic_game_value(board, piece), with either piece.
Evaluate ==
    /\ pc = "call"
    /\ \E piece \in Both :
         /\ score' = heuristic_game_value(ai, board, piece)
         /\ arg' = <<piece>>
    /\ pc' = "done"
    /\ op' = "heuristic"
    /\ prev' = board
    /\ UNCHANGED <<board, ai, piece_count, turn, move, err, first, value, turns, games>>

EvalNext == Evaluate

EvalSpec == EvalInit /\ [][EvalNext]_vars

\* ------------------------------------------------- _minimax on given nodes

\* 8 pieces, no winner, the agent one step from row 0 and from the box at
\* (0, 0):   . X X X .
\*           . X . . .
\*           . . . . .
\*           O . . O .
\*           . O . . O
NearMine == {<<0, 1>>, <<0, 2>>, <<0, 3>>, <<1, 1>>}

NearTheirs == {<<3, 0>>, <<3, 3>>, <<4, 1>>, <<4, 4>>}

\* The (depth limit, agent's piece, board) triples: drop-phase boards with
\* and without winners and move-phase boards at limits 1 and 2, nearly full
\* boards and the board above at limits 1 to 3.
NodeInputs ==
    Family({1, 2}, Both, {{}, Row0Three, Row0}, {{}, {<<1, 3>>}, Row1})
    \cup Family({1, 2}, Both, {MoveMine}, {t \in SUBSET MoveTheirs : Cardinality(t) = 4})
    \cup Family(1 .. AI_SEARCH_DEPTH, Both, {DenseA \ h : h \in DenseHoles},
                {DenseB \ h : h \in DenseHoles})
    \cup Family(1 .. AI_SEARCH_DEPTH, {pieces[1]}, {NearMine}, {NearTheirs})

NodeInit ==
    /\ \E in \in NodeInputs :
         /\ ai = Player(in.my_piece, in.d)
         /\ board = PlayerBoard(Player(in.my_piece, in.d), in.mine, in.theirs)
         /\ prev = PlayerBoard(Player(in.my_piece, in.d), in.mine, in.theirs)
         /\ turn = IF in.my_piece = pieces[1] THEN 0 ELSE 1
         /\ piece_count = IF Cardinality(in.mine \cup in.theirs) < 8
                          THEN Cardinality(in.mine \cup in.theirs) ELSE 8
    /\ pc = "call"
    /\ op = "init"
    /\ move = <<>>
    /\ err = NoError
    /\ first = <<>>
    /\ value = 0
    /\ score = 0
    /\ arg = <<>>
    /\ games = 1
    /\ turns = 0

\* One call _minimax(board, depth, is_maximizing_player) as the search makes
\* them: the agent to move at even depths, the opponent at odd ones.
CallMinimax ==
    /\ pc = "call"
    /\ \E depth \in 0 .. ai.AI_SEARCH_DEPTH :
       \E res \in {_minimax(ai, board, depth, depth % 2 = 0)} :
         /\ score' = res.eval
         /\ move' = res.move
         /\ arg' = <<depth, depth % 2 = 0>>
    /\ pc' = "done"
    /\ op' = "_minimax"
    /\ prev' = board
    /\ UNCHANGED <<board, ai, piece_count, turn, err, first, value, turns, games>>

NodeNext == CallMinimax \/ CallMakeMove

NodeSpec == NodeInit /\ [][NodeNext]_vars

\* ------------------------------------------------ one game after another

MaxGames == 2

\* main() once more in the same process, up to "# Main game loop":
\* TeekoPlayer() draws a piece and sets the depth; board is the attribute of
\* the class, which __init__ does not touch.
NewGame ==
    /\ pc = "done"
    /\ games < MaxGames
    /\ ai' \in Players({ai.AI_SEARCH_DEPTH})
    /\ games' = games + 1
    /\ piece_count' = 0
    /\ turn' = 0
    /\ turns' = 0
    /\ pc' = "loop"
    /\ op' = "construct"
    /\ prev' = board
    /\ UNCHANGED <<board, move, err, first, value, score, arg>>

LifeNext == AiTurn \/ HumanTurn \/ GameOver \/ Report \/ NewGame

\* The games are explored with a search depth of 1.
LifeSpec == ApiInit /\ [][LifeNext]_vars

Next == AiTurn \/ HumanTurn \/ GameOver \/ Report

Spec == Init /\ [][Next]_vars
\* ================================================================ claims

\* The two pieces, as the claims name them.
PieceA == pieces[1]

PieceB == pieces[2]

Occupied(b) == CountPiece(b, PieceA) + CountPiece(b, PieceB)

\* C1: in play where the agent's moves come from make_move and place_piece
\* and the opponent's are whatever opponent_move accepts, the board holds at
\* most 4 of each piece and at most 8 pieces, and once it holds 8 it keeps 8.
C1_PieceCounts ==
    /\ CountPiece(board, PieceA) <= 4
    /\ CountPiece(board, PieceB) <= 4
    /\ Occupied(board) <= 8
    /\ (Occupied(prev) = 8 => Occupied(board) = 8)

\* C2: a rejected opponent_move leaves every cell of the board as it was; the
\* board changes only when every check passes, and then by place_piece.
C2_RejectedMoveKeepsBoard ==
    op = "opponent_move" =>
        /\ (err # NoError => board = prev)
        /\ (board # prev => err = NoError)
        /\ (err = NoError => board = place_piece(prev, move, ai.opp))

C2_Witness ==
    /\ op = "opponent_move"
    /\ err = ErrOccupied
    /\ Occupied(prev) > 0
    /\ board = prev

\* The failure names of the error taxonomy, by the message raised.
Failure(e) ==
    CASE e = NoError -> "Accepted"
      [] e = ErrFormat -> "MalformedMove"
      [] e = ErrOutside -> "OutOfBounds"
      [] e = ErrSourceOutside -> "OutOfBounds"
      [] e = ErrOccupied -> "DestinationOccupied"
      [] e = ErrNoPiece -> "SourceNotOwnedByOpponent"
      [] e = ErrNotAdjacent -> "NonAdjacentMove"

\* King-move adjacency: both deltas at most 1, not both zero.
KingAdjacent(a, b) ==
    /\ Abs(a[1] - b[1]) <= 1
    /\ Abs(a[2] - b[2]) <= 1
    /\ a # b

CellInBounds(rc) == rc[1] \in Rows /\ rc[2] \in Rows

\* The conditions (a), (b), (c), (d1), (d2), (d3) a move violates on board b.
\* A condition that reads a cell out of bounds counts as not violated: the
\* bounds condition before it is.
Violated(b, m, opp) ==
    (IF Len(m) \in {1, 2} THEN {} ELSE {"a"})
    \cup (IF Len(m) >= 1 /\ ~CellInBounds(m[1]) THEN {"b"} ELSE {})
    \cup (IF Len(m) >= 1 /\ CellInBounds(m[1]) /\ At(b, m[1]) # Empty THEN {"c"} ELSE {})
    \cup (IF Len(m) = 2 /\ ~CellInBounds(m[2]) THEN {"d1"} ELSE {})
    \cup (IF Len(m) = 2 /\ CellInBounds(m[2]) /\ At(b, m[2]) # opp THEN {"d2"} ELSE {})
    \cup (IF Len(m) = 2 /\ ~KingAdjacent(m[1], m[2]) THEN {"d3"} ELSE {})

\* The failure of the earliest violated condition, in the order a .. d3.
EarliestFailure(v) ==
    IF "a" \in v THEN "MalformedMove"
    ELSE IF "b" \in v THEN "OutOfBounds"
    ELSE IF "c" \in v THEN "DestinationOccupied"
    ELSE IF "d1" \in v THEN "OutOfBounds"
    ELSE IF "d2" \in v THEN "SourceNotOwnedByOpponent"
    ELSE IF "d3" \in v THEN "NonAdjacentMove"
    ELSE "Accepted"

\* C3: opponent_move reports the failure of the earliest condition the move
\* violates, in the order (a) 1 or 2 coordinates, (b) destination in bounds,
\* (c) destination Empty, (d) source in bounds, source the opponent's, source
\* and destination adjacent; a move that violates none is accepted.
C3_EarliestFailureReported ==
    op = "opponent_move" =>
        Failure(err) = EarliestFailure(Violated(prev, move, ai.opp))

C3_Witness ==
    /\ op = "opponent_move"
    /\ {"c", "d2", "d3"} \subseteq Violated(prev, move, ai.opp)
    /\ err = ErrOccupied

\* C4: a relocation is accepted only from a source holding the opponent's
\* piece to an Empty king-move adjacent destination; a relocation further
\* than one step, or onto its own source, is rejected; an accepted one
\* empties the source, fills the destination and changes no other cell.
C4_RelocationAdjacent ==
    (op = "opponent_move" /\ Len(move) = 2) =>
        /\ (err = NoError =>
              /\ CellInBounds(move[1]) /\ CellInBounds(move[2])
              /\ At(prev, move[1]) = Empty
              /\ At(prev, move[2]) = ai.opp
              /\ KingAdjacent(move[1], move[2])
              /\ At(board, move[2]) = Empty
              /\ At(board, move[1]) = ai.opp
              /\ \A rc \in AllCellSet \ {move[1], move[2]} : At(board, rc) = At(prev, rc))
        /\ (Abs(move[1][1] - move[2][1]) > 1 \/ Abs(move[1][2] - move[2][2]) > 1
               => err # NoError)
        /\ (move[1] = move[2] => err # NoError)

C4_Witness ==
    /\ op = "opponent_move"
    /\ Len(move) = 2
    /\ err = NoError
    /\ board # prev

\* a relocation rejected for its distance alone is reached too.
C4_RejectedReached ==
    /\ op = "opponent_move"
    /\ Len(move) = 2
    /\ err = ErrNotAdjacent

LegalFor(self, b, m) ==
    IF Occupied(b) < 8
    THEN /\ Len(m) = 1
         /\ CellInBounds(m[1])
         /\ At(b, m[1]) = Empty
    ELSE /\ Len(m) = 2
         /\ CellInBounds(m[1])
         /\ CellInBounds(m[2])
         /\ At(b, m[2]) = self.my_piece
         /\ At(b, m[1]) = Empty
         /\ KingAdjacent(m[1], m[2])

\* C6: every non-empty move make_move returns is legal for the phase of the
\* board it was given: with fewer than 8 pieces one in-bounds Empty cell,
\* with 8 or more a destination then a source, the source holding the
\* agent's piece and the destination an Empty cell one king move away.
C6_ReturnedMoveLegal ==
    (op \in {"make_move", "ai_turn"} /\ move # <<>>) => LegalFor(ai, prev, move)

\* the empty board searched at depth 3.
C6_Witness ==
    /\ op = "make_move"
    /\ prev = EmptyBoard
    /\ ai.AI_SEARCH_DEPTH = AI_SEARCH_DEPTH
    /\ Len(move) = 1
    /\ At(prev, move[1]) = Empty

\* a move-phase board is searched too.
C6_MovePhaseReached ==
    /\ op = "make_move"
    /\ Occupied(prev) = 8
    /\ Len(move) = 2

\* The agent has (0,0), (0,1), (0,2), (0,3) is Empty, fewer than 8 pieces.
ThreeInRow0(self, b) ==
    /\ \A rc \in Row0Three : At(b, rc) = self.my_piece
    /\ At(b, <<0, 3>>) = Empty
    /\ Occupied(b) < 8

\* C7 as stated: on every drop-phase board with the agent's piece on (0,0),
\* (0,1), (0,2) and (0,3) Empty, at every depth of at least 1, make_move
\* returns the move placing at (0,3).
C7_CompletesRowOnEveryBoard ==
    (op = "make_move" /\ ThreeInRow0(ai, prev)) => move = <<<<0, 3>>>>

\* C7: on every such board on which no side has a winning pattern yet, at
\* every depth of at least 1, make_move returns the move placing at (0,3).
C7_CompletesRowWithoutWinner ==
    (op = "make_move" /\ ThreeInRow0(ai, prev) /\ game_value(ai, prev) = 0)
        => move = <<<<0, 3>>>>

C7_Witness ==
    /\ op = "make_move"
    /\ ThreeInRow0(ai, prev)
    /\ game_value(ai, prev) = 0
    /\ ai.AI_SEARCH_DEPTH = AI_SEARCH_DEPTH
    /\ Occupied(prev) = 7
    /\ move = <<<<0, 3>>>>

\* C8: make_move returns the empty move exactly when the generator yields
\* no successor for the agent's piece on the board given; it then leaves the
\* board as it was, and the game loop ends the game without another search.
C8_EmptyMoveIffNoSuccessor ==
    /\ op \in {"make_move", "ai_turn"} =>
          ((move = <<>>) <=> (Len(_generate_successors(ai, prev, ai.my_piece)) = 0))
    /\ op = "make_move" => board = prev
    /\ (op = "ai_turn" /\ move = <<>>) =>
          /\ board = prev
          /\ pc = "game_over"
          /\ ~ENABLED AiTurn
          /\ ~ENABLED CallMakeMove

\* the full board but one cell, the agent's pieces all blocked.
C8_Witness ==
    /\ op = "ai_turn"
    /\ move = <<>>
    /\ Occupied(prev) = BoardSize * BoardSize - 1
    /\ game_value(ai, prev) = 0
    /\ pc = "game_over"

\* Piece p fills the 4 cells w.
FilledBy(b, w, p) == \A rc \in w : At(b, rc) = p

HasPattern(b, p) == \E w \in Patterns : FilledBy(b, w, p)

\* The pattern families in the order of the scan.
Families == <<LinesOf(0, 1), LinesOf(1, 0), LinesOf(1, 1), LinesOf(1, -1), Boxes>>

FamilyFilled(b, f, p) == \E w \in Families[f] : FilledBy(b, w, p)

\* The first family, in the order of the scan, with a filled window; 0 if none.
FirstFamily(b) ==
    LET fs == {f \in DOMAIN Families : \E p \in Both : FamilyFilled(b, f, p)}
    IN IF fs = {} THEN 0 ELSE CHOOSE f \in fs : \A g \in fs : f <= g

\* The board with the two pieces exchanged.
Exchanged(b) == [r \in Rows |-> [c \in Rows |->
    IF b[r][c] = Empty THEN Empty ELSE OppOf(b[r][c])]]

Cells(w) == {w[i] : i \in DOMAIN w}

Windows(ws) == {Cells(ws[k]) : k \in DOMAIN ws}

\* C9: game_value scans 44 windows (10 horizontal, 10 vertical, 4 on each
\* diagonal direction, 16 boxes); it returns 0 exactly when no window holds
\* four equal pieces, else +1 or -1 as the first filled window in the order
\* horizontal, vertical, diagonal, anti-diagonal, box holds the agent's or
\* the opponent's piece; exchanging the two pieces negates the result.
C9_GameValueByFirstWindow ==
    /\ Len(WinWindows) = 44
    /\ Len(HorizontalWindows) = 10 /\ Windows(HorizontalWindows) = Families[1]
    /\ Len(VerticalWindows) = 10 /\ Windows(VerticalWindows) = Families[2]
    /\ Len(DiagonalWindows) = 4 /\ Windows(DiagonalWindows) = Families[3]
    /\ Len(AntiDiagonalWindows) = 4 /\ Windows(AntiDiagonalWindows) = Families[4]
    /\ Len(BoxWindows) = 16 /\ Windows(BoxWindows) = Families[5]
    /\ op = "report" =>
          /\ value \in {-1, 0, 1}
          /\ (value = 0 <=> ~\E p \in Both : HasPattern(board, p))
          /\ (value = 1 => FamilyFilled(board, FirstFamily(board), ai.my_piece))
          /\ (value = -1 => FamilyFilled(board, FirstFamily(board), ai.opp))
          /\ game_value(ai, Exchanged(board)) = -value

\* both pieces have a pattern and the agent's comes first in the scan.
C9_Witness ==
    /\ op = "report"
    /\ value = 1
    /\ HasPattern(board, ai.opp)
    /\ ~FamilyFilled(board, FirstFamily(board), ai.opp)

\* C10: in every board the game loop reaches from the empty board, stopping
\* as soon as game_value is not 0, at most one piece has a winning pattern.
C10_OnePatternAtMost ==
    ~(HasPattern(board, PieceA) /\ HasPattern(board, PieceB))

\* the game stopped on the human's pattern.
C10_Witness ==
    /\ pc = "game_over"
    /\ op = "game_over"
    /\ HasPattern(board, ai.opp)
    /\ ~HasPattern(board, ai.my_piece)
    /\ Len(move) = 2

\* and on the agent's, made by a relocation.
C10_AgentWinReached ==
    /\ pc = "game_over"
    /\ op = "game_over"
    /\ HasPattern(board, ai.my_piece)
    /\ Len(move) = 2

\* The cells of w in row-major order.
InOrder(w) == SelectSeq(AllCells, LAMBDA rc : rc \in w)

\* Window w holds a piece other than p.
Contested(b, w, p) == \E rc \in w : At(b, rc) \notin {p, Empty}

\* The cells of w holding p, or 0 when w holds a piece of the other side.
CountIn(b, w, p) ==
    IF Contested(b, w, p) THEN 0 ELSE Cardinality({rc \in w : At(b, rc) = p})

\* The longest run of consecutive cells of w holding p, or 0 when w holds a
\* piece of the other side.
RunIn(b, w, p) ==
    IF Contested(b, w, p) THEN 0
    ELSE LET cells == InOrder(w)
             runs == {<<i, j>> \in (1 .. 4) \X (1 .. 4) :
                        i <= j /\ \A k \in i .. j : At(b, cells[k]) = p}
         IN SetMax({0} \cup {r[2] - r[1] + 1 : r \in runs})

BestOf(b, p, Count(_, _, _)) == SetMax({Count(b, w, p) : w \in Patterns})

\* C11 as stated: on a board without a winner, 4 * heuristic_game_value is
\* best_own - best_opp, a window counting for a side the consecutive cells
\* that side's piece occupies (0 if the other side is in it), whatever piece
\* argument is passed.
C11_HeuristicByRuns ==
    (op = "heuristic" /\ game_value(ai, prev) = 0) =>
        score = BestOf(prev, ai.my_piece, RunIn) - BestOf(prev, ai.opp, RunIn)

\* C11: on a board without a winner, 4 * heuristic_game_value is best_own -
\* best_opp, a window counting for a side the cells that side's piece
\* occupies, consecutive or not (0 if the other side is in it), and best_own
\* and best_opp the maxima over the windows of the five families; the score
\* is relative to the agent's own piece whatever piece argument is passed.
C11_HeuristicByCounts ==
    (op = "heuristic" /\ game_value(ai, prev) = 0) =>
        score = BestOf(prev, ai.my_piece, CountIn) - BestOf(prev, ai.opp, CountIn)

\* the opponent's piece passed, the agent's best window one with a gap.
C11_Witness ==
    /\ op = "heuristic"
    /\ game_value(ai, prev) = 0
    /\ arg = <<ai.opp>>
    /\ score = 0
    /\ Occupied(prev) = 6
    /\ BestOf(prev, ai.my_piece, CountIn) = 3
    /\ BestOf(prev, ai.my_piece, RunIn) = 2

\* C12: on every board on which game_value returns 0, heuristic_game_value
\* is within [-1, 1] and is neither +1 nor -1: 4 * score is in -3 .. 3.
C12_HeuristicBounded ==
    (op = "heuristic" /\ game_value(ai, prev) = 0) => score \in -3 .. 3

C12_Witness ==
    /\ op = "heuristic"
    /\ game_value(ai, prev) = 0
    /\ score = -3
    /\ Occupied(prev) = 3

\* The last operation applied a move with place_piece.
Placed ==
    \/ op = "ai_turn" /\ move # <<>>
    \/ op = "opponent_move" /\ err = NoError

\* The piece the last operation placed.
PlacedPiece == IF op = "ai_turn" THEN ai.my_piece ELSE ai.opp

\* C13: after place_piece applies a drop, the destination holds the piece
\* placed; after it applies a relocation, the source is Empty, the
\* destination holds the piece, and as many cells hold that piece as before.
C13_PlacePieceEffect ==
    Placed =>
        /\ At(board, move[1]) = PlacedPiece
        /\ Len(move) = 2 =>
              /\ At(board, move[2]) = Empty
              /\ CountPiece(board, PlacedPiece) = CountPiece(prev, PlacedPiece)

\* a relocation by the agent.
C13_Witness ==
    /\ op = "ai_turn"
    /\ Len(move) = 2
    /\ At(prev, move[2]) = ai.my_piece
    /\ At(board, move[2]) = Empty

\* a drop is applied too.
C13_DropReached ==
    /\ op = "opponent_move"
    /\ err = NoError
    /\ Len(move) = 1
    /\ At(prev, move[1]) = Empty
    /\ At(board, move[1]) = ai.opp

\* C14: every newly constructed agent starts with an all-Empty board of its
\* own: no move applied through another agent is on it, and an agent
\* constructed after a finished game has an empty board again.
C14_NewAgentEmptyBoard ==
    op = "construct" => board = EmptyBoard

\* C15: make_move, _minimax and _generate_successors change neither the
\* board passed to them nor the authoritative board: when make_move returns
\* every cell is as before the call, and the board changes only in
\* place_piece.
C15_SearchLeavesBoard ==
    /\ op = "make_move" => board = prev
    /\ (op = "ai_turn" /\ move = <<>>) => board = prev
    /\ (op = "ai_turn" /\ move # <<>>) => board = place_piece(prev, move, ai.my_piece)

\* a search three plies deep of a board of 7 pieces.
C15_Witness ==
    /\ op = "make_move"
    /\ ai.AI_SEARCH_DEPTH = AI_SEARCH_DEPTH
    /\ Occupied(prev) = 7
    /\ move # <<>>
    /\ board = prev

\* C16: in the game loop one move is applied per turn, by the two sides in
\* strict alternation; an opponent move that opponent_move rejects changes
\* neither the turn nor the loop's piece counter nor the board, and the
\* opponent is asked again.
C16_TurnsAlternate ==
    /\ [][/\ board' # board =>
               /\ turn' = 1 - turn
               /\ turns' = turns + 1
               /\ board' = place_piece(board, move', pieces[turn + 1])
          /\ turn' # turn => board' # board
          /\ (op' = "opponent_move" /\ err' # NoError) =>
               /\ turn' = turn
               /\ piece_count' = piece_count
               /\ board' = board
               /\ pc' = pc]_vars
    /\ []((op = "opponent_move" /\ err # NoError) => ENABLED HumanTurn)

\* a relocation of the human's rejected.
C16_Witness ==
    /\ op = "opponent_move"
    /\ err # NoError
    /\ Len(move) = 2
    /\ ai.my_piece # pieces[turn + 1]
    /\ pc = "loop"

\* C17: at the start of every turn of the game loop the stored phase flag,
\* piece_count < 8, equals the phase derived from the board, fewer than 8
\* cells occupied.
C17_PhaseFlagMatchesBoard ==
    pc = "loop" => ((piece_count < 8) <=> (Occupied(board) < 8))

\* the move phase, after a relocation of the human's.
C17_Witness ==
    /\ pc = "loop"
    /\ piece_count = 8
    /\ Occupied(board) = 8
    /\ op = "opponent_move"
    /\ err = NoError
    /\ Len(move) = 2

\* The legal moves of piece p on board b, from the rules: a drop on each
\* Empty cell while fewer than 8 pieces are on the board, afterwards a step
\* of one of p's pieces to an Empty king-move neighbour on the board.
LegalMoves(b, p) ==
    LET free == {rc \in AllCellSet : At(b, rc) = Empty}
        held == {rc \in AllCellSet : At(b, rc) = p}
    IN IF Cardinality(AllCellSet \ free) < 8
       THEN {<<to>> : to \in free}
       ELSE UNION {{<<to, from>> : to \in {rc \in free : KingAdjacent(rc, from)}} :
                   from \in held}

\* Board b with the destination of m set to p and, for a relocation, its
\* source cleared; no other cell touched.
AfterMove(b, m, p) ==
    [r \in Rows |-> [c \in Rows |->
        IF <<r, c>> = m[1] THEN p
        ELSE IF Len(m) = 2 /\ <<r, c>> = m[2] THEN Empty
        ELSE b[r][c]]]

ExactSuccessors(self, b, p) ==
    \E succs \in {_generate_successors(self, b, p)} :
    \E legal \in {LegalMoves(b, p)} :
       /\ {succs[k].move : k \in DOMAIN succs} = legal
       /\ Len(succs) = Cardinality(legal)
       /\ \A k \in DOMAIN succs :
            /\ succs[k].state = AfterMove(b, succs[k].move, p)
            /\ Len(succs[k].move) = 2 =>
                 /\ CountPiece(succs[k].state, PieceA) = CountPiece(b, PieceA)
                 /\ CountPiece(succs[k].state, PieceB) = CountPiece(b, PieceB)
       /\ legal = {} => succs = <<>>

\* C18: on every board searched and for either piece _generate_successors returns one
\* pair per legal move and no other: a drop per Empty cell in the drop phase,
\* a (destination, source) step per piece and Empty in-bounds neighbour in
\* the move phase; each successor board differs from the given one in the
\* cells of its move only, so a step keeps the count of each piece; with no
\* legal move the result is empty.
C18_SuccessorsExact ==
    op = "make_move" => \A p \in {PieceA, PieceB} : ExactSuccessors(ai, prev, p)

\* a full board of 8 on which the agent's search returned a step.
C18_Witness ==
    /\ op = "make_move"
    /\ Occupied(prev) = 8
    /\ Len(move) = 2
    /\ move \in LegalMoves(prev, ai.my_piece)
    /\ Len(_generate_successors(ai, prev, ai.my_piece)) > 1

\* a board in the move phase on which a side has no step.
C18_NoMoveReached ==
    /\ op = "make_move"
    /\ Occupied(prev) >= 8
    /\ \E p \in {PieceA, PieceB} : _generate_successors(ai, prev, p) = <<>>

SetMin(S) == CHOOSE x \in S : \A y \in S : x <= y

\* The best of the children's values for the side to move; with no child,
\* the value the comparison starts from.
BestValue(vals, agent_to_move) ==
    IF vals = {} THEN (IF agent_to_move THEN NegInf ELSE PosInf)
    ELSE IF agent_to_move THEN SetMax(vals) ELSE SetMin(vals)

\* The value of a node by the definition of depth-limited minimax, left
\* being the plies left before the depth limit: the winner's sign on a
\* board with a winner, else the heuristic when no ply is left, else the
\* best of the children's values.
RECURSIVE NodeValue(_, _, _, _)
NodeValue(self, b, left, agent_to_move) ==
    IF game_value(self, b) # 0 THEN 4 * game_value(self, b)
    ELSE IF left = 0 THEN heuristic_game_value(self, b, self.my_piece)
    ELSE LET children == _generate_successors(self, b,
                            IF agent_to_move THEN self.my_piece ELSE self.opp)
         IN BestValue({NodeValue(self, children[k].state, left - 1, ~agent_to_move) :
                          k \in DOMAIN children}, agent_to_move)

\* The move of the first child, in generator order, whose value is the
\* node's; none on a board with a winner, at the depth limit, or with no child.
NodeMove(self, b, left, agent_to_move) ==
    IF game_value(self, b) # 0 \/ left = 0 THEN None
    ELSE LET children == _generate_successors(self, b,
                            IF agent_to_move THEN self.my_piece ELSE self.opp)
             vals == [k \in DOMAIN children |->
                        NodeValue(self, children[k].state, left - 1, ~agent_to_move)] \o <<>>
             best == BestValue({vals[k] : k \in DOMAIN vals}, agent_to_move)
             hits == {k \in DOMAIN vals : vals[k] = best}
         IN IF hits = {} THEN None
            ELSE children[CHOOSE k \in hits : \A j \in hits : k <= j].move

C19_WinnerAtLimitReached ==
    /\ op = "_minimax"
    /\ arg[1] = ai.AI_SEARCH_DEPTH
    /\ game_value(ai, prev) = -1
    /\ score = -4
    /\ heuristic_game_value(ai, prev, ai.my_piece) # score

\* a node above the depth limit without a child.
C19_ChildlessReached ==
    /\ op = "_minimax"
    /\ arg[1] < ai.AI_SEARCH_DEPTH
    /\ game_value(ai, prev) = 0
    /\ _generate_successors(ai, prev, IF arg[2] THEN ai.my_piece ELSE ai.opp) = <<>>
    /\ move = None

\* The moves of the agent on board b after which b holds a winning pattern
\* of the agent's.
ImmediateWins(self, b) ==
    {m \in LegalMoves(b, self.my_piece) :
        game_value(self, AfterMove(b, m, self.my_piece)) = 1}

\* C20: on a board without a winner where some legal move of the agent's
\* completes one of its winning patterns, the move make_move returns, applied
\* with place_piece, makes game_value +1.
C20_TakesImmediateWin ==
    (/\ op = "make_move"
     /\ game_value(ai, prev) = 0
     /\ ImmediateWins(ai, prev) # {})
    => /\ move # <<>>
       /\ game_value(ai, place_piece(prev, move, ai.my_piece)) = 1

====
